---------------------------- MODULE Spec2Model ----------------------------
(***************************************************************************)
(* Model of Financialadvisor (src/dagger/src/main/__init__.py): the        *)
(* run_pipeline coroutine, which awaits seven stages one after another,    *)
(* and the send coroutine, which loops over the recipient list and posts   *)
(* one SMS per recipient.  Each action is the code run between two         *)
(* suspension points (awaits) of the coroutine.                            *)
(***************************************************************************)
EXTENDS Integers, Sequences, FiniteSets, TLC

----------------------------------------------------------------------------
(* Bounds of the model *)

MaxKey == 2
MaxRows == 2
MaxLen == 2

----------------------------------------------------------------------------
(* Helpers *)

Range(s) == {s[k] : k \in 1..Len(s)}

Last(s) == s[Len(s)]

IsPrefix(s, t) == /\ Len(s) <= Len(t)
                  /\ \A k \in 1..Len(s) : s[k] = t[k]

SeqsUpTo(S, n) == UNION {[1..m -> S] : m \in 0..n}

\* Python's `x in result` on strings, over a response seen as its words
Contains(result, word) == \E k \in 1..Len(result) : result[k] = word

RECURSIVE Flatten(_)
Flatten(ss) == IF ss = <<>> THEN <<>> ELSE Head(ss) \o Flatten(Tail(ss))

----------------------------------------------------------------------------
(* Values *)

\* uniqueness keys of the transactions of the spreadsheet
Keys == 1..MaxKey

\* the rows fetch_data can return: sequences of transactions (by key)
Datasets == SeqsUpTo(Keys, MaxRows)

\* the category the zero-shot model gives a transaction
Category(k) == IF k % 2 = 1 THEN "food" ELSE "rent"

\* the characters of an advice text: an unreserved one and two reserved ones
Alphabet == {"a", " ", "%"}

Texts == SeqsUpTo(Alphabet, MaxLen)

\* JSON values of the 'advice' member: None (absent or null), a number, a string
None == [t |-> "None", v |-> <<>>]
Number == [t |-> "int", v |-> <<>>]
Str(s) == [t |-> "str", v |-> s]

\* the strings generate can return: not JSON at all, or an object with or
\* without the 'advice' member
GenerateResponses ==
    {[json |-> FALSE, has |-> FALSE, advice |-> None],
     [json |-> TRUE, has |-> FALSE, advice |-> None],
     [json |-> TRUE, has |-> TRUE, advice |-> Number]}
    \cup {[json |-> TRUE, has |-> TRUE, advice |-> Str(s)] : s \in Texts}

\* the recipients hard-coded in send
phone_numbers == <<"15162341744", "15512259418">>

\* the lists a caller may pass as mobileNums: the two numbers of send, the
\* two numbers of the documented call
RecipientLists == {phone_numbers, <<"+1234567890", "+0987654321">>}

\* bodies the SMS provider can answer with, as the words they contain:
\* {"success": true, ...}, {"success": false, "error": ...}, and a body
\* without the word (an HTML error page, an empty body)
ResultSent == <<"success", "true">>
ResultRefused == <<"success", "false", "error">>
ResultMalformed == <<"error">>
Results == {ResultSent, ResultRefused, ResultMalformed}

\* what awaiting the curl container can give: stdout, or an exception
ExecOutcomes ==
    {[raised |-> FALSE, result |-> r] : r \in Results}
    \cup {[raised |-> TRUE, result |-> <<>>]}

\* the exceptions the awaited Dagger calls raise
StageErrors == {"QueryError", "ExecError"}

Stages == <<"fetch", "filter", "categorize", "write", "get_data", "generate", "send">>

NoStage == "-"
NoRecipient == "-"
NoError == [type |-> "-", stage |-> NoStage, recipient |-> NoRecipient, cause |-> "-"]


----------------------------------------------------------------------------
(* The stages, as the functions run_pipeline calls *)

\* filter_for_new_transactions().filter: the rows whose key is not in the store
Filter(json, st) == SelectSeq(json, LAMBDA k : k \notin {r.id : r \in st})

\* categorize_expenses().categorize: one labelled record per row, same order
Categorize(new) == [k \in 1..Len(new) |-> [id |-> new[k], category |-> Category(new[k])]]

\* write_to_mongo().write: the batch is added to the collection
Write(categorized, st) == st \cup Range(categorized)

\* get_from_mongo().get_data: the whole collection
GetData(st) == st

\* json.loads(generate_resp).get('advice'): JSONDecodeError on a string that
\* is not JSON, None when the member is absent
JsonLoadsGet(resp) ==
    IF ~resp.json THEN [ok |-> FALSE, v |-> None]
    ELSE IF ~resp.has THEN [ok |-> TRUE, v |-> None]
    ELSE [ok |-> TRUE, v |-> resp.advice]

\* QuoteChar as quote_plus does it: a space becomes a plus sign
QuoteChar_plus(c) ==
    CASE c = " " -> <<"+">>
      [] c = "%" -> <<"%", "2", "5">>
      [] OTHER -> <<c>>

\* urllib.parse.quote on one character: letters stay, reserved ones are escaped
QuoteChar(c) ==
    CASE c = " " -> <<"%", "2", "0">>
      [] c = "%" -> <<"%", "2", "5">>
      [] OTHER -> <<c>>

QuoteStr(s) == Flatten([k \in 1..Len(s) |-> QuoteChar(s[k])])

\* Quote with a default for a missing text (quote(resp_dict or ''))
Quote_lenient(v) ==
    IF v.t = "str" THEN [ok |-> TRUE, v |-> QuoteStr(v.v)]
    ELSE [ok |-> TRUE, v |-> <<>>]

\* urllib.parse.quote(resp_dict): TypeError on anything that is not a string
Quote(v) ==
    IF v.t = "str" THEN [ok |-> TRUE, v |-> QuoteStr(v.v)]
    ELSE [ok |-> FALSE, v |-> <<>>]

\* NextStage with the categorizer called on the raw rows, before the filter
NextStage_swapped(s) ==
    CASE s = "fetch" -> "categorize"
      [] s = "categorize" -> "filter"
      [] s = "filter" -> "write"
      [] s = "write" -> "get_data"
      [] s = "get_data" -> "generate"
      [] s = "generate" -> "send"
      [] OTHER -> "done"

\* NextStage with the categorizer and the write left out
NextStage_skip(s) ==
    CASE s = "fetch" -> "filter"
      [] s = "filter" -> "get_data"
      [] s = "get_data" -> "generate"
      [] s = "generate" -> "send"
      [] OTHER -> "done"

\* CategorizeArg with the fetched rows handed to the categorizer
CategorizeArg_raw(json, new) == json

\* the batch run_pipeline hands to categorize: the output of the filter
CategorizeArg(json, new) == new

\* the batch run_pipeline hands to write: the output of categorize
WriteArg(new, categorized) == categorized

\* NextStage with the history read before the write
NextStage_readFirst(s) ==
    CASE s = "fetch" -> "filter"
      [] s = "filter" -> "categorize"
      [] s = "categorize" -> "get_data"
      [] s = "get_data" -> "write"
      [] s = "write" -> "generate"
      [] s = "generate" -> "send"
      [] OTHER -> "done"

\* NextStage with the write put off until the advice is there
NextStage_writeLate(s) ==
    CASE s = "fetch" -> "filter"
      [] s = "filter" -> "categorize"
      [] s = "categorize" -> "get_data"
      [] s = "get_data" -> "generate"
      [] s = "generate" -> "write"
      [] s = "write" -> "send"
      [] OTHER -> "done"

\* the order of the awaits in run_pipeline
NextStage(s) ==
    CASE s = "fetch" -> "filter"
      [] s = "filter" -> "categorize"
      [] s = "categorize" -> "write"
      [] s = "write" -> "get_data"
      [] s = "get_data" -> "generate"
      [] s = "generate" -> "send"
      [] OTHER -> "done"

\* Resume with the exception of a stage swallowed
Resume_swallow(s, raised) == NextStage(s)

\* where run_pipeline continues after the await of stage s: no await is inside
\* a try, so an exception leaves the coroutine
Resume(s, raised) == IF raised THEN "failed" ELSE NextStage(s)

\* AttemptError without the test of the output
AttemptError_noCheck(o) == IF o.raised THEN "ExecError" ELSE "-"

\* the test of one delivery attempt in send: the exception of the container,
\* or ValueError when the word "success" is not in the output
AttemptError(o) ==
    IF o.raised THEN "ExecError"
    ELSE IF ~Contains(o.result, "success") THEN "ValueError"
    ELSE "-"

\* Reraises with the failure of a recipient swallowed (except: continue)
Reraises_continue(exc) == FALSE

\* the except clause of the loop of send: every exception of the try body,
\* the ValueError of the test included, is raised again as RuntimeError
Reraises(exc) == exc # "-"

\* NextRecipient with the same recipient tried again
NextRecipient_retry(k) == k

\* the for loop of send: the recipient after the k-th
NextRecipient(k) == k + 1

----------------------------------------------------------------------------
(* State *)

VARIABLES
    pc,                       \* the await run_pipeline / send is suspended at
    mobileNums,               \* the recipients the caller asked for
    store,                    \* the MongoDB collection
    json_resp,                \* locals of run_pipeline
    new_transactions,
    categorized_transactions,
    get_data,
    generate_resp,
    resp_dict,
    encoded_message,
    phone_number,             \* locals of send: index of the loop, last output
    result,
    started,                  \* history: stages called in this run, in order
    returned,                 \* history: stages that returned in this run
    inflight,                 \* history: stages called and not yet completed
    attempts,                 \* history: curl commands executed in this run
    outcomes,                 \* history: what each of them gave
    raisedAt,                 \* history: where the exception of this run arose
    store0,                   \* history: the collection when this run was called
    prev,                     \* history: the transactions fetched by the run before, if it wrote
    error,                    \* the exception run_pipeline raised
    ret                       \* the string run_pipeline returned

locals == <<json_resp, new_transactions, categorized_transactions, get_data,
            generate_resp, resp_dict, encoded_message>>

sendVars == <<phone_number, result, attempts, outcomes>>

history == <<started, returned, inflight, raisedAt>>

runHistory == <<store0, prev>>

vars == <<pc, mobileNums, store, locals, sendVars, history, runHistory, error, ret>>

NoRun == [written |-> FALSE, keys |-> {}]

NoResponse == [json |-> FALSE, has |-> FALSE, advice |-> None]

Init ==
    /\ pc = "idle"
    /\ mobileNums = <<>>
    /\ store = {}
    /\ json_resp = <<>>
    /\ new_transactions = <<>>
    /\ categorized_transactions = <<>>
    /\ get_data = {}
    /\ generate_resp = NoResponse
    /\ resp_dict = None
    /\ encoded_message = <<>>
    /\ phone_number = 0
    /\ result = <<>>
    /\ started = <<>>
    /\ returned = <<>>
    /\ inflight = {}
    /\ attempts = <<>>
    /\ outcomes = <<>>
    /\ raisedAt = NoStage
    /\ store0 = {}
    /\ prev = NoRun
    /\ error = NoError
    /\ ret = <<>>

----------------------------------------------------------------------------
(* run_pipeline *)

\* the exception of a stage reaches the caller as it was raised
Unwrapped(e) == [type |-> e, stage |-> NoStage, recipient |-> NoRecipient, cause |-> e]

\* the await of stage s completes and the coroutine runs to its next await
Resumed(s, raised, e) ==
    LET to == Resume(s, raised) IN
    /\ pc' = to
    /\ returned' = IF raised THEN returned ELSE Append(returned, s)
    /\ started' = IF to \in Range(Stages) THEN Append(started, to) ELSE started
    /\ inflight' = (inflight \ {s}) \cup (IF to \in Range(Stages) THEN {to} ELSE {})
    /\ raisedAt' = IF raised THEN s ELSE raisedAt
    /\ error' = IF raised THEN Unwrapped(e) ELSE error

\* a call of run_pipeline, up to its first await
StartRun ==
    /\ pc \in {"idle", "done", "failed"}
    /\ \E l \in RecipientLists : mobileNums' = l
    /\ pc' = "fetch"
    /\ started' = <<"fetch">>
    /\ inflight' = {"fetch"}
    /\ returned' = <<>>
    /\ raisedAt' = NoStage
    /\ store0' = store
    /\ prev' = IF "write" \in Range(returned)
                 THEN [written |-> TRUE, keys |-> Range(json_resp)]
                 ELSE NoRun
    /\ error' = NoError
    /\ ret' = <<>>
    /\ json_resp' = <<>>
    /\ new_transactions' = <<>>
    /\ categorized_transactions' = <<>>
    /\ get_data' = {}
    /\ generate_resp' = NoResponse
    /\ resp_dict' = None
    /\ encoded_message' = <<>>
    /\ phone_number' = 0
    /\ result' = <<>>
    /\ attempts' = <<>>
    /\ outcomes' = <<>>
    /\ UNCHANGED store

\* json_resp = await dag.fetch_spreadsheet_data().fetch_data(apiKey, sheet)
FetchData ==
    /\ pc = "fetch"
    /\ \/ \E rows \in Datasets :
            /\ json_resp' = rows
            /\ Resumed("fetch", FALSE, "-")
       \/ \E e \in StageErrors :
            /\ Resumed("fetch", TRUE, e)
            /\ UNCHANGED json_resp
    /\ UNCHANGED <<mobileNums, runHistory, store, new_transactions, categorized_transactions,
                   get_data, generate_resp, resp_dict, encoded_message, sendVars, ret>>

\* new_transactions = await dag.filter_for_new_transactions().filter(...)
FilterNew ==
    /\ pc = "filter"
    /\ \/ /\ new_transactions' = Filter(json_resp, store)
          /\ Resumed("filter", FALSE, "-")
       \/ \E e \in StageErrors :
            /\ Resumed("filter", TRUE, e)
            /\ UNCHANGED new_transactions
    /\ UNCHANGED <<mobileNums, runHistory, store, json_resp, categorized_transactions,
                   get_data, generate_resp, resp_dict, encoded_message, sendVars, ret>>

\* categorized_transactions = await dag.categorize_expenses().categorize(...)
CategorizeExpenses ==
    /\ pc = "categorize"
    /\ \/ /\ categorized_transactions' = Categorize(CategorizeArg(json_resp, new_transactions))
          /\ Resumed("categorize", FALSE, "-")
       \/ \E e \in StageErrors :
            /\ Resumed("categorize", TRUE, e)
            /\ UNCHANGED categorized_transactions
    /\ UNCHANGED <<mobileNums, runHistory, store, json_resp, new_transactions,
                   get_data, generate_resp, resp_dict, encoded_message, sendVars, ret>>

\* write_to_mongo = await dag.write_to_mongo().write(...)
WriteToMongo ==
    /\ pc = "write"
    /\ \/ /\ store' = Write(WriteArg(new_transactions, categorized_transactions), store)
          /\ Resumed("write", FALSE, "-")
       \/ \E e \in StageErrors :
            /\ Resumed("write", TRUE, e)
            /\ UNCHANGED store
    /\ UNCHANGED <<mobileNums, runHistory, locals, sendVars, ret>>

\* get_data = await dag.get_from_mongo().get_data(...)
GetFromMongo ==
    /\ pc = "get_data"
    /\ \/ /\ get_data' = GetData(store)
          /\ Resumed("get_data", FALSE, "-")
       \/ \E e \in StageErrors :
            /\ Resumed("get_data", TRUE, e)
            /\ UNCHANGED get_data
    /\ UNCHANGED <<mobileNums, runHistory, store, json_resp, new_transactions,
                   categorized_transactions, generate_resp, resp_dict,
                   encoded_message, sendVars, ret>>

\* an exception of lines 84-85, raised after generate has returned
ParseError(type) ==
    /\ pc' = "failed"
    /\ returned' = Append(returned, "generate")
    /\ inflight' = inflight \ {"generate"}
    /\ raisedAt' = "parse"
    /\ error' = Unwrapped(type)
    /\ UNCHANGED started

\* generate_resp = await dag.get_advice().generate(get_data, openai, connection)
\* resp_dict = json.loads(generate_resp).get('advice')
\* encoded_message = urllib.parse.quote(resp_dict)
\* ... await self.send(encoded_message, textBelt), up to its first await
GenerateAdvice ==
    /\ pc = "generate"
    /\ \/ \E resp \in GenerateResponses :
            LET loaded == JsonLoadsGet(resp)
                quoted == Quote(loaded.v)
            IN  /\ generate_resp' = resp
                /\ IF ~loaded.ok
                     THEN /\ ParseError("JSONDecodeError")
                          /\ UNCHANGED <<resp_dict, encoded_message>>
                     ELSE /\ resp_dict' = loaded.v
                          /\ IF ~quoted.ok
                               THEN /\ ParseError("TypeError")
                                    /\ UNCHANGED encoded_message
                               ELSE /\ encoded_message' = quoted.v
                                    /\ Resumed("generate", FALSE, "-")
       \/ \E e \in StageErrors :
            /\ Resumed("generate", TRUE, e)
            /\ UNCHANGED <<generate_resp, resp_dict, encoded_message>>
    /\ UNCHANGED <<mobileNums, runHistory, store, json_resp, new_transactions,
                   categorized_transactions, get_data, sendVars, ret>>

----------------------------------------------------------------------------
(* send *)

\* CurlCmd with the advice as generated, not encoded
CurlCmd_unencoded(k) == [recipient |-> phone_numbers[k], message |-> resp_dict.v]

\* the curl command of the loop body for the k-th recipient
CurlCmd(k) == [recipient |-> phone_numbers[k], message |-> encoded_message]

\* text_belt_key = await textBelt.plaintext(), then the loop up to the first
\* container it awaits
Plaintext ==
    /\ pc = "send"
    /\ \/ /\ pc' = "exec"
          /\ phone_number' = 1
          /\ attempts' = Append(attempts, CurlCmd(1))
          /\ UNCHANGED <<inflight, raisedAt, error>>
       \/ \E e \in StageErrors :
            /\ pc' = "failed"
            /\ inflight' = inflight \ {"send"}
            /\ raisedAt' = "send"
            /\ error' = Unwrapped(e)
            /\ UNCHANGED <<phone_number, attempts>>
    /\ UNCHANGED <<mobileNums, runHistory, store, locals, result, outcomes, started,
                   returned, ret>>

\* result = await dag.container()...stdout() for the current recipient, the
\* test of the output, and the loop up to the next container or the return
Exec ==
    /\ pc = "exec"
    /\ \E o \in ExecOutcomes :
         LET exc == AttemptError(o) IN
         /\ outcomes' = Append(outcomes, [recipient |-> phone_numbers[phone_number],
                                          result |-> o.result, error |-> exc])
         /\ result' = IF o.raised THEN result ELSE o.result
         /\ IF Reraises(exc)
              THEN \* except Exception as e: raise RuntimeError(...)
                   /\ pc' = "failed"
                   /\ inflight' = inflight \ {"send"}
                   /\ raisedAt' = "send"
                   /\ error' = [type |-> "RuntimeError", stage |-> NoStage,
                                recipient |-> phone_numbers[phone_number],
                                cause |-> exc]
                   /\ UNCHANGED <<phone_number, attempts, returned, ret>>
              ELSE IF phone_number < Len(phone_numbers)
                     THEN /\ phone_number' = NextRecipient(phone_number)
                          /\ attempts' = Append(attempts, CurlCmd(NextRecipient(phone_number)))
                          /\ UNCHANGED <<pc, inflight, raisedAt, error, returned, ret>>
                     ELSE \* return result
                          /\ pc' = "done"
                          /\ ret' = result'
                          /\ returned' = Append(returned, "send")
                          /\ inflight' = inflight \ {"send"}
                          /\ UNCHANGED <<phone_number, attempts, raisedAt, error>>
    /\ UNCHANGED <<mobileNums, runHistory, store, locals, started>>

\* send as a function of what the provider answers each recipient of the
\* list: the string returned, or the RuntimeError raised
RECURSIVE SendFrom(_, _, _)
SendFrom(v, k, last) ==
    IF k > Len(phone_numbers)
      THEN [raised |-> FALSE, value |-> last, recipient |-> NoRecipient, cause |-> "-"]
      ELSE IF Reraises(AttemptError(v[k]))
             THEN [raised |-> TRUE, value |-> <<>>, recipient |-> phone_numbers[k],
                   cause |-> AttemptError(v[k])]
             ELSE SendFrom(v, NextRecipient(k), IF v[k].raised THEN last ELSE v[k].result)

SendOutcome(v) == SendFrom(v, 1, <<>>)

----------------------------------------------------------------------------

Next ==
    \/ StartRun
    \/ FetchData
    \/ FilterNew
    \/ CategorizeExpenses
    \/ WriteToMongo
    \/ GetFromMongo
    \/ GenerateAdvice
    \/ Plaintext
    \/ Exec

Spec == Init /\ [][Next]_vars

----------------------------------------------------------------------------
(* Properties *)

BeforeSend == {"fetch", "filter", "categorize", "write", "get_data", "generate"}

Returned(s) == s \in Range(returned)

Started(s) == s \in Range(started)

\* send has ended by an exception of one of its delivery attempts
SendRaised == pc = "failed" /\ error.type = "RuntimeError"

\* the filter of this run has returned no new transaction
Quiescent == Returned("filter") /\ new_transactions = <<>>

\* C1: the stages of a run are started in the order fetch, filter, categorize,
\* write, get_data, generate, send, none twice; a stage is started only when
\* every stage before it has returned, and at most one stage is in flight.
C1_StagesInOrder ==
    /\ IsPrefix(started, Stages)
    /\ IsPrefix(returned, started)
    /\ Len(started) <= Len(returned) + 1
    /\ Cardinality(inflight) <= 1
    /\ \A s \in inflight : s = Last(started) /\ ~Returned(s)

C1_Witness == pc = "done" /\ started = Stages /\ returned = Stages

\* C2: when a stage before send raises, the run has failed, the stage that
\* raised is the last one that was started, no SMS is attempted, and after a
\* failed write no advice is generated.
C2_FailureStopsRun ==
    raisedAt \in BeforeSend =>
        /\ pc = "failed"
        /\ error # NoError
        /\ Last(started) = raisedAt
        /\ inflight = {}
        /\ attempts = <<>>
        /\ raisedAt = "write" => ~Started("generate") /\ generate_resp = NoResponse

C2_Witness == pc = "failed" /\ raisedAt = "write" /\ categorized_transactions # <<>>

\* C3: when send has ended, by a return or by the exception of an attempt,
\* it has made one delivery attempt per recipient of its list.
C3_BroadcastComplete ==
    (pc = "done" \/ SendRaised) =>
        /\ Len(attempts) = Len(phone_numbers)
        /\ \A k \in 1..Len(attempts) : attempts[k].recipient = phone_numbers[k]

\* C4: send raises only when the attempt for the final recipient of the list
\* failed.
C4_RaisesOnlyForFinal ==
    SendRaised =>
        /\ Len(outcomes) = Len(phone_numbers)
        /\ error.recipient = Last(phone_numbers)

C6_OnlySuppliedRecipients ==
    /\ \A k \in 1..Len(attempts) : attempts[k].recipient \in Range(mobileNums)
    /\ pc = "done" => {attempts[k].recipient : k \in 1..Len(attempts)} = Range(mobileNums)

\* C7 as stated: when the filter returns no new transaction, the categorizer
\* is not called and no write is issued.
C7_QuiescentSkips ==
    Quiescent => ~Started("categorize") /\ ~Started("write")

\* C7 as amended: when the filter returns no new transaction, the categorizer
\* is still called, on the empty batch, and once it has returned the write is
\* still issued, on what the categorizer returned; get_data, generate and send
\* are started after them, in order, as in any other run.
C7_QuiescentRunsAllStages ==
    Quiescent =>
        /\ Started("categorize")
        /\ Returned("categorize") => Started("write")
        /\ Returned("write") => Started("get_data")
        /\ Started("get_data") => Returned("categorize") /\ Returned("write")
        /\ Started("send") => \A s \in BeforeSend : Returned(s)

C7_Witness ==
    /\ Quiescent
    /\ json_resp # <<>>
    /\ store # {}
    /\ pc = "done"
    /\ Len(attempts) = Len(phone_numbers)

\* C8: the error of a failed run names the stage that failed, which is the
\* last stage started, and carries the underlying error.
C8_ErrorNamesStage ==
    pc = "failed" =>
        /\ error.stage = Last(started)
        /\ error.cause # "-"

\* C9: when the response of generate has no advice member, the run fails
\* before send is called and no SMS is attempted.
C9_MissingAdviceAborts ==
    (Returned("generate") /\ generate_resp.json /\ ~generate_resp.has) =>
        /\ pc = "failed"
        /\ error.type = "TypeError"
        /\ ~Started("send")
        /\ attempts = <<>>

C9_Witness ==
    /\ Returned("generate")
    /\ generate_resp.json
    /\ ~generate_resp.has
    /\ pc = "failed"

\* C10: no delivery attempt carries the empty message, and a response of
\* generate whose advice is the empty text makes the run fail.
C10_NoEmptyAdviceSent ==
    /\ \A k \in 1..Len(attempts) : attempts[k].message # <<>>
    /\ (Returned("generate") /\ generate_resp.advice = Str(<<>>)) => pc = "failed"

\* the uniqueness keys of the transactions in a collection
StoreKeys(st) == {r.id : r \in st}

\* the batch of this run: what is handed to categorize, what is handed to write
Submitted == CategorizeArg(json_resp, new_transactions)

Persisted == WriteArg(new_transactions, categorized_transactions)

\* C11: while the categorizer or the write of a run is in flight the store is
\* still as the filter saw it, and the batch handed to the categorizer, then
\* to the write, holds only fetched transactions whose key is not in the
\* store; this in every run of a sequence of runs.
C11_NoResubmission ==
    /\ pc \in {"categorize", "write"} => store = store0
    /\ pc = "categorize" =>
          Range(Submitted) \subseteq Range(json_resp) \ StoreKeys(store)
    /\ pc = "write" =>
          /\ StoreKeys(Range(Persisted)) \subseteq Range(json_resp) \ StoreKeys(store)
          /\ Len(Persisted) = Len(Submitted)

C11_Witness ==
    /\ pc = "write"
    /\ Persisted # <<>>
    /\ \E k \in Range(json_resp) : k \in StoreKeys(store)

\* the run has fetched the transactions the run before it fetched, and the
\* run before it completed its write
SameData == prev.written /\ Returned("fetch") /\ Range(json_resp) = prev.keys

\* C12: in a run on the same source data as the run before it, whose write
\* completed, the filter returns nothing, the batch written is empty and the
\* store stays as the first run left it.
C12_SecondRunPersistsNothing ==
    SameData =>
        /\ store = store0
        /\ Returned("filter") => new_transactions = <<>>
        /\ (pc = "write" \/ Returned("write")) => Persisted = <<>>

C12_Witness ==
    /\ SameData
    /\ json_resp # <<>>
    /\ Returned("write")
    /\ pc = "done"

\* C13: the history handed to the advice generator is read after the write of
\* the run has returned, and holds every categorized transaction of the batch
\* written in the run.
C13_ReadAfterWrite ==
    Started("generate") =>
        /\ Returned("write")
        /\ Returned("get_data")
        /\ Range(Persisted) \subseteq get_data
        /\ store0 \subseteq get_data

C13_Witness == pc = "generate" /\ Persisted # <<>> /\ store0 # {}

\* where a failure leaves the write of the run behind it
AfterWrite == {"get_data", "generate", "parse", "send"}

\* C17: a run that fails after its write has returned leaves the written
\* batch in the store; a run that fails in the write or before it leaves the
\* store as it was when the run was called.
C17_NoRollback ==
    pc = "failed" =>
        /\ raisedAt \in AfterWrite => store = store0 \cup Range(Persisted)
        /\ raisedAt \notin AfterWrite => store = store0

C17_Witness ==
    /\ pc = "failed"
    /\ raisedAt = "generate"
    /\ store # store0
    /\ attempts = <<>>

\* what the provider may answer the recipients of the list, one by one
Vectors == [1..Len(phone_numbers) -> ExecOutcomes]

\* the recipients whose attempt fails when the provider answers as in v
FailedSet(v) == {phone_numbers[k] : k \in {j \in 1..Len(phone_numbers) : AttemptError(v[j]) # "-"}}

\* what the caller of send got in this run
Actual ==
    [raised |-> pc = "failed", value |-> ret, recipient |-> error.recipient,
     cause |-> error.cause]

\* C14: what send returned or raised tells the caller which recipients
\* failed: any two ways the provider may have answered that give the outcome
\* of this run have the same recipients failing (all, some and which, none).
C14_OutcomeTellsCases ==
    (pc = "done" \/ SendRaised) =>
        \A v1, v2 \in Vectors :
            (SendOutcome(v1) = Actual /\ SendOutcome(v2) = Actual) =>
                FailedSet(v1) = FailedSet(v2)

\* the characters that may follow a percent sign in an escape
HexDigits == {"0", "2", "5", "a"}

\* the character an escape stands for
Decode(h, l) ==
    CASE h = "2" /\ l = "0" -> " "
      [] h = "2" /\ l = "5" -> "%"
      [] OTHER -> "?"

\* urllib.parse.unquote: every %XX becomes the character it stands for, the
\* rest stays
RECURSIVE Unquote(_)
Unquote(s) ==
    IF s = <<>> THEN <<>>
    ELSE IF Len(s) >= 3 /\ s[1] = "%" /\ s[2] \in HexDigits /\ s[3] \in HexDigits
           THEN <<Decode(s[2], s[3])>> \o Unquote(SubSeq(s, 4, Len(s)))
           ELSE <<s[1]>> \o Unquote(Tail(s))

\* C15: the message run_pipeline hands to send decodes to the advice text of
\* the response of generate.
C15_RoundTrip ==
    Started("send") =>
        /\ generate_resp.advice.t = "str"
        /\ resp_dict = generate_resp.advice
        /\ Unquote(encoded_message) = generate_resp.advice.v

C15_Witness ==
    /\ Started("send")
    /\ " " \in Range(resp_dict.v)
    /\ "%" \in Range(resp_dict.v)

\* the body with which the provider reports that the SMS was sent
IndicatesSuccess(r) == r = ResultSent

\* C16: an attempt passes as successful exactly when the answer of the
\* provider reports success; an exception, a refusal and a malformed answer
\* all make it a failed attempt.
C16_OnlySuccessPasses ==
    \A k \in 1..Len(outcomes) :
        outcomes[k].error = "-" <=> IndicatesSuccess(outcomes[k].result)

\* C18: the attempts of send go to the recipients of its list in list order,
\* one per recipient, and an attempt starts only when the attempt before it
\* has completed.
C18_SequentialAttempts ==
    /\ Len(attempts) <= Len(phone_numbers)
    /\ \A k \in 1..Len(attempts) : attempts[k].recipient = phone_numbers[k]
    /\ \A a, b \in 1..Len(attempts) :
          a # b => attempts[a].recipient # attempts[b].recipient
    /\ Len(outcomes) <= Len(attempts)
    /\ Len(attempts) <= Len(outcomes) + 1
    /\ \A k \in 1..Len(outcomes) : outcomes[k].recipient = attempts[k].recipient
    /\ pc = "exec" <=> Len(attempts) = Len(outcomes) + 1

C18_Witness == pc = "exec" /\ Len(attempts) = Len(phone_numbers) /\ Len(outcomes) = 1

\* C19: a run calls generate at most once, and once when it reaches send, on
\* the history get_data read in the run; every attempt of the run carries the
\* one message encoded from the advice of that response.
C19_OneAdvicePerRun ==
    /\ Cardinality({k \in 1..Len(started) : started[k] = "generate"}) <= 1
    /\ Started("generate") => Returned("get_data") /\ get_data = GetData(store)
    /\ Started("send") =>
          /\ Returned("generate")
          /\ generate_resp.advice.t = "str"
          /\ encoded_message = QuoteStr(generate_resp.advice.v)
    /\ \A k \in 1..Len(attempts) :
          /\ Started("send")
          /\ attempts[k].message = encoded_message

C19_Witness ==
    /\ Len(attempts) = Len(phone_numbers)
    /\ " " \in Range(resp_dict.v)
    /\ get_data # {}

\* C20: in send the recipients attempted are a prefix of the list and no
\* attempt but the latest has failed; when send raises, the error names the
\* recipient of the latest attempt, the first of the list whose attempt failed.
C20_FirstFailureEnds ==
    /\ IsPrefix([k \in 1..Len(attempts) |-> attempts[k].recipient], phone_numbers)
    /\ \A k \in 1..Len(outcomes) : outcomes[k].error # "-" => k = Len(attempts)
    /\ SendRaised =>
          /\ Len(outcomes) = Len(attempts)
          /\ Last(outcomes).error # "-"
          /\ error.recipient = Last(attempts).recipient
          /\ error.cause = Last(outcomes).error
          /\ \A k \in 1..(Len(outcomes) - 1) : outcomes[k].error = "-"

C20_Witness == SendRaised /\ Len(attempts) = Len(phone_numbers)

============================================================================
